---- MODULE Spec2Model ----
(***************************************************************************)
(* Kitchen-inventory backend (src/main.py): the /voice-action and          *)
(* /scan-bill handlers reconcile an AI-derived batch against the remote    *)
(* "inventory" table, /shopping-list derives the restock list.             *)
(*                                                                         *)
(* Quantities and thresholds are Python floats.  The model counts them in  *)
(* eighths (8 = 1.0): eighths are exact in binary floating point, so the   *)
(* handlers' additions and subtractions are exact integer arithmetic here, *)
(* and round(x, 2) is decided by the exact value (ties to even).           *)
(* Rounded values are counted in hundredths (100 = 1.0).                   *)
(*                                                                         *)
(* Item names are sequences of one-character strings.                      *)
(*                                                                         *)
(* Handlers interleave at the calls to the store: process_voice is a sync  *)
(* handler (thread pool), scan_bill runs on the event loop, and several    *)
(* worker processes may serve the same remote table.  One action is the    *)
(* handler's code from one store call up to and including the next.        *)
(***************************************************************************)
EXTENDS Integers, Sequences, FiniteSets, TLC

VARIABLES
    store,      \* the inventory table: rows in the store's return order
    nextId,     \* the id the store assigns to the next inserted row
    req,        \* one record per handler slot: the handler's locals and position
    claimed,    \* number of batch entries received so far, over all requests
    ledger,     \* per row: quantity the row would hold had every committed delta been applied one after the other
    raced,      \* some committed update was computed from a quantity another write had replaced
    data,       \* /shopping-list: the snapshot the handler fetched
    shopping,   \* /shopping-list: the response body
    shopPc      \* /shopping-list: position of the handler

vars == <<store, nextId, req, claimed, ledger, raced, data, shopping, shopPc>>

----------------------------------------------------------------------------
\* Bounds of the model

\* entries that all the batches received together may hold
MaxEntries == 3
\* rows of the inventory snapshots the shopping list is derived from
MaxSnapshot == 2

\* the handlers that can run at the same time
Slots == {"h1", "h2"}

----------------------------------------------------------------------------
\* Values

\* the threshold column: a number (eighths), or NULL
Threshold(v) == [present |-> TRUE, value |-> v]
NoThreshold == [present |-> FALSE, value |-> 0]

\* a key the AI left out of an entry
Missing == "<missing>"
MissingItem == <<"<missing>">>

\* a JSON quantity: a number (counted in eighths), a string that is no number, or absent
Num(v) == [kind |-> "number", value |-> v]
NonNumeric == [kind |-> "text", value |-> 0]
MissingQty == [kind |-> "missing", value |-> 0]

\* item names the AI returns in the request model
Names == { <<"a">>, <<"A">>, <<"b">>, <<"_">> }

\* quantities the AI returns (eighths): 1.5
Quantities == {Num(12)}

Units == {"liter"}

Lower(c) == IF c = "A" THEN "a" ELSE IF c = "B" THEN "b" ELSE c

lower(name) == [k \in DOMAIN name |-> Lower(name[k])]

\* equality of names ignoring letter case
SameName(x, y) == lower(x) = lower(y)

----------------------------------------------------------------------------
\* The store's ILIKE operator: pattern p against text s, ignoring case.
\* % matches any run of characters, _ any one character, \ escapes the
\* character after it.

RECURSIVE LikeMatch(_, _)
LikeMatch(p, s) ==
    IF p = <<>> THEN s = <<>>
    ELSE IF Head(p) = "%"
        THEN LikeMatch(Tail(p), s) \/ (s # <<>> /\ LikeMatch(p, Tail(s)))
    ELSE IF Head(p) = "_"
        THEN s # <<>> /\ LikeMatch(Tail(p), Tail(s))
    ELSE IF Head(p) = "\\"
        THEN /\ Len(p) >= 2
             /\ s # <<>>
             /\ Lower(p[2]) = Lower(Head(s))
             /\ LikeMatch(Tail(Tail(p)), Tail(s))
    ELSE /\ s # <<>>
         /\ Lower(Head(p)) = Lower(Head(s))
         /\ LikeMatch(Tail(p), Tail(s))

\* .ilike("item_name", name): the pattern is the name as given
ilike(p, s) == LikeMatch(p, s)

\* supabase.table("inventory").select("*").ilike("item_name", name).execute().data
select_ilike(table, name) == SelectSeq(table, LAMBDA row : ilike(name, row.item_name))

\* ids of the rows whose name equals name ignoring case
SameNameIds(table, name) ==
    { table[k].id : k \in { j \in 1..Len(table) : SameName(table[j].item_name, name) } }

Ids(rows) == { rows[k].id : k \in 1..Len(rows) }

RowIndex(table, id) == CHOOSE k \in 1..Len(table) : table[k].id = id

\* .update({"quantity": q}).eq("id", id).execute()
update_quantity(table, id, q) ==
    [k \in 1..Len(table) |->
        IF table[k].id = id THEN [table[k] EXCEPT !.quantity = q] ELSE table[k]]

\* .insert({"item_name": name, "quantity": qty, "unit": unit}).execute():
\* the store assigns the id; the threshold column is not given
insert_row(table, id, name, qty, unit) ==
    Append(table, [id |-> id, item_name |-> name, quantity |-> qty,
                   unit |-> unit, threshold |-> NoThreshold])

----------------------------------------------------------------------------
\* The AI response text, as a sequence of tokens: code-fence markers around
\* a body that is either a JSON object holding a batch of n entries or
\* prose that is no JSON.

Token(kind, n) == [kind |-> kind, n |-> n]

\* the opening marker (three backticks and the word json) and the closing one
FenceJson == "fence-json"
Fence == "fence"

Bodies == { Token("json", n) : n \in 0..MaxEntries } \cup { Token("prose", 0) }

Texts ==
    { <<b>> : b \in Bodies }
    \cup { <<Token(FenceJson, 0), b, Token(Fence, 0)>> : b \in Bodies }

\* str.replace: every occurrence of the marker is removed
replace(text, marker) == SelectSeq(text, LAMBDA t : t.kind # marker)

\* response.text with the json fence marker, then the bare fence marker, replaced by nothing
clean_text(text) == replace(replace(text, FenceJson), Fence)

ParseError == Token("JSONDecodeError", 0)

\* json.loads that falls back to a batch of one entry when the text is no JSON
json_loads_lenient(clean) ==
    IF Len(clean) = 1 /\ clean[1].kind = "json" THEN clean[1] ELSE Token("json", 1)

\* json.loads(clean_text): the object, or the exception it raises
json_loads(clean) ==
    IF Len(clean) = 1 /\ clean[1].kind = "json" THEN clean[1] ELSE ParseError

\* an entry of the batch; a field the AI left out is Missing
VoiceEntries ==
    [action_type : {"USE", "ADD", Missing},
     item : Names \cup {MissingItem},
     quantity : Quantities \cup {NonNumeric, MissingQty},
     unit : {Missing}]

ScanEntries ==
    [action_type : {Missing},
     item : Names \cup {MissingItem},
     quantity : Quantities \cup {NonNumeric, MissingQty},
     unit : Units]

NoEntry ==
    [action_type |-> Missing, item |-> MissingItem, quantity |-> MissingQty, unit |-> Missing]

----------------------------------------------------------------------------
\* Handler slots

IdleReq ==
    [endpoint |-> "none", pc |-> "idle", text |-> <<>>, n |-> 0, i |-> 0,
     entry |-> NoEntry, found |-> <<>>, same |-> {}, stale |-> FALSE,
     logs |-> <<>>, resp |-> "none", errAt |-> -1, writes |-> 0, garbled |-> FALSE]

\* the rows the model starts from
InitialStores ==
    { <<>>,
      <<[id |-> 1, item_name |-> <<"a">>, quantity |-> 8, unit |-> "liter",
         threshold |-> NoThreshold]>> }

Init ==
    /\ store \in InitialStores
    /\ nextId = Len(store) + 1
    /\ req = [r \in Slots |-> IdleReq]
    /\ claimed = 0
    /\ ledger = [k \in 1..Len(store) |-> store[k].quantity]
    /\ raced = FALSE
    /\ data = <<>>
    /\ shopping = <<>>
    /\ shopPc = "idle"

shopVars == <<data, shopping, shopPc>>

\* except Exception: return the error payload; the locals of the handler,
\* its log list included, are gone; k is the entry being handled (0: none yet)
Raise(r, k) ==
    req' = [req EXCEPT ![r] = [@ EXCEPT !.pc = "done", !.resp = "error", !.errAt = k,
                                        !.i = k,
                                        !.entry = NoEntry, !.found = <<>>,
                                        !.same = {}, !.stale = FALSE, !.logs = <<>>]]

\* the text holds no JSON body, with or without fence markers around it
Garbled(text) == \A k \in 1..Len(text) : text[k].kind # "json"

\* the AI call and the parse that open both handlers (lines 71-76, 123-128)
Interpret(r, endpoint, text) ==
    LET parsed == json_loads(clean_text(text)) IN
    IF parsed = ParseError
    THEN req' = [req EXCEPT ![r] = [IdleReq EXCEPT !.endpoint = endpoint, !.text = text,
                                            !.garbled = Garbled(text),
                                            !.pc = "done", !.resp = "error", !.errAt = 0]]
    ELSE req' = [req EXCEPT ![r] = [IdleReq EXCEPT !.endpoint = endpoint,
                                            !.garbled = Garbled(text),
                                            !.pc = "loop", !.n = parsed.n]]

\* POST /voice-action, up to the loop over the actions
process_voice(r) ==
    /\ req[r].pc = "idle"
    /\ \E text \in Texts :
          /\ Interpret(r, "voice", text)
          /\ claimed' = claimed + req'[r].n
          /\ claimed' <= MaxEntries
    /\ UNCHANGED <<store, nextId, ledger, raced, shopVars>>

\* POST /scan-bill, up to the loop over the items
scan_bill(r) ==
    /\ req[r].pc = "idle"
    /\ \E text \in Texts :
          /\ Interpret(r, "scan", text)
          /\ claimed' = claimed + req'[r].n
          /\ claimed' <= MaxEntries
    /\ UNCHANGED <<store, nextId, ledger, raced, shopVars>>

\* model.generate_content raises: the handler's except returns the error
generate_content_fails(r) ==
    /\ req[r].pc = "idle"
    /\ UNCHANGED claimed
    /\ \E endpoint \in {"voice", "scan"} :
          req' = [req EXCEPT ![r] = [IdleReq EXCEPT !.endpoint = endpoint,
                                       !.text = <<Token("exception", 0)>>,
                                       !.garbled = TRUE,
                                       !.pc = "done", !.resp = "error", !.errAt = 0]]
    /\ UNCHANGED <<store, nextId, ledger, raced, shopVars>>

----------------------------------------------------------------------------
\* The loops.  The entry is read when the loop reaches it; the step runs
\* the loop body up to and including its next call to the store.

\* float(q) succeeds
Numeric(q) == q.kind = "number"

\* the handler goes on to entry i + 1 and has the rows its select returned
Selected(r, e) ==
    req' = [req EXCEPT ![r] = [@ EXCEPT !.pc = "selected", !.i = @ + 1, !.entry = e,
                                        !.found = select_ilike(store, e.item),
                                        !.same = SameNameIds(store, e.item),
                                        !.stale = FALSE]]

\* the log line appended for entry i, and back to the head of the loop
Logged(rq, r, tag) ==
    [rq EXCEPT ![r] = [@ EXCEPT !.pc = "loop",
                                !.logs = Append(@, [idx |-> rq[r].i, tag |-> tag]),
                                !.entry = NoEntry, !.found = <<>>, !.same = {},
                                !.stale = FALSE]]

\* another handler that has read row id and not yet written now holds a replaced quantity
MarkStale(rq, r, id) ==
    [s \in Slots |->
        IF s # r /\ rq[s].pc = "selected" /\ rq[s].found # <<>> /\ rq[s].found[1].id = id
        THEN [rq[s] EXCEPT !.stale = TRUE]
        ELSE rq[s]]

\* the update of row id to quantity q is committed; delta is the signed change asked for
CommitUpdate(r, id, q, delta, tag) ==
    /\ store' = update_quantity(store, id, q)
    /\ ledger' = [ledger EXCEPT ![RowIndex(store, id)] = @ + delta]
    /\ raced' = (raced \/ req[r].stale)
    /\ req' = MarkStale(Logged([req EXCEPT ![r].writes = @ + 1], r, tag), r, id)
    /\ UNCHANGED <<nextId, claimed, shopVars>>

InLoop(r, endpoint) ==
    /\ req[r].endpoint = endpoint
    /\ req[r].pc = "loop"
    /\ req[r].i < req[r].n

AtWrite(r, endpoint) ==
    /\ req[r].endpoint = endpoint
    /\ req[r].pc = "selected"

\* new_stock = float(current_stock) - float(qty_used)
new_stock(current_stock, qty_used) == current_stock - qty_used

\* the scanned quantity replaces the stock instead of adding to it
new_qty_overwrite(current_qty, qty) == qty

\* new_qty = current_qty + qty
new_qty(current_qty, qty) == current_qty + qty

\* the unit of a row created by scan_bill
created_unit(item) == "unit"

\* ---- process_voice, lines 79-97

\* an action whose action_type is not USE: the loop body does nothing
voice_skip(r) ==
    /\ InLoop(r, "voice")
    /\ \E action \in VoiceEntries :
          /\ action.action_type \notin {"USE", Missing}
          /\ req' = [req EXCEPT ![r].i = @ + 1]
    /\ UNCHANGED <<store, nextId, claimed, ledger, raced, shopVars>>

\* action["action_type"], action["item"] or action["quantity"] raises KeyError
voice_key_error(r) ==
    /\ InLoop(r, "voice")
    /\ \E action \in VoiceEntries :
          \/ action.action_type = Missing
          \/ /\ action.action_type = "USE"
             /\ (action.item = MissingItem \/ action.quantity = MissingQty)
    /\ Raise(r, req[r].i + 1)
    /\ UNCHANGED <<store, nextId, claimed, ledger, raced, shopVars>>

\* line 85: the lookup
voice_select(r) ==
    /\ InLoop(r, "voice")
    /\ \E action \in VoiceEntries :
          /\ action.action_type = "USE"
          /\ action.item # MissingItem
          /\ action.quantity # MissingQty
          /\ Selected(r, action)
    /\ UNCHANGED <<store, nextId, claimed, ledger, raced, shopVars>>

\* line 85: the store rejects the lookup
voice_select_rejected(r) ==
    /\ InLoop(r, "voice")
    /\ \E action \in VoiceEntries :
          /\ action.action_type = "USE"
          /\ action.item # MissingItem
          /\ action.quantity # MissingQty
    /\ Raise(r, req[r].i + 1)
    /\ UNCHANGED <<store, nextId, claimed, ledger, raced, shopVars>>

\* line 90: float(qty_used) raises on a quantity that is no number
voice_value_error(r) ==
    /\ AtWrite(r, "voice")
    /\ req[r].found # <<>>
    /\ ~Numeric(req[r].entry.quantity)
    /\ Raise(r, req[r].i)
    /\ UNCHANGED <<store, nextId, claimed, ledger, raced, shopVars>>

\* lines 87-93: the first row returned is updated
voice_update(r) ==
    /\ AtWrite(r, "voice")
    /\ req[r].found # <<>>
    /\ Numeric(req[r].entry.quantity)
    /\ CommitUpdate(r, req[r].found[1].id,
                    new_stock(req[r].found[1].quantity, req[r].entry.quantity.value),
                    0 - req[r].entry.quantity.value, "Updated")

\* line 92: the store rejects the update
voice_update_rejected(r) ==
    /\ AtWrite(r, "voice")
    /\ req[r].found # <<>>
    /\ Numeric(req[r].entry.quantity)
    /\ Raise(r, req[r].i)
    /\ UNCHANGED <<store, nextId, claimed, ledger, raced, shopVars>>

\* lines 94-95
voice_not_found(r) ==
    /\ AtWrite(r, "voice")
    /\ req[r].found = <<>>
    /\ req' = Logged(req, r, "NotFound")
    /\ UNCHANGED <<store, nextId, claimed, ledger, raced, shopVars>>

\* line 97
voice_return(r) ==
    /\ req[r].endpoint = "voice"
    /\ req[r].pc = "loop"
    /\ req[r].i = req[r].n
    /\ req' = [req EXCEPT ![r] = [@ EXCEPT !.pc = "done", !.resp = "ok"]]
    /\ UNCHANGED <<store, nextId, claimed, ledger, raced, shopVars>>

\* ---- scan_bill, lines 130-145

\* item["item"] or item["quantity"] raises KeyError, float() raises ValueError
scan_bad_entry(r) ==
    /\ InLoop(r, "scan")
    /\ \E item \in ScanEntries : (item.item = MissingItem \/ ~Numeric(item.quantity))
    /\ Raise(r, req[r].i + 1)
    /\ UNCHANGED <<store, nextId, claimed, ledger, raced, shopVars>>

\* line 134: the lookup
scan_select(r) ==
    /\ InLoop(r, "scan")
    /\ \E item \in ScanEntries :
          /\ item.item # MissingItem
          /\ Numeric(item.quantity)
          /\ Selected(r, item)
    /\ UNCHANGED <<store, nextId, claimed, ledger, raced, shopVars>>

\* line 134: the store rejects the lookup
scan_select_rejected(r) ==
    /\ InLoop(r, "scan")
    /\ \E item \in ScanEntries : (item.item # MissingItem /\ Numeric(item.quantity))
    /\ Raise(r, req[r].i + 1)
    /\ UNCHANGED <<store, nextId, claimed, ledger, raced, shopVars>>

\* lines 136-140
scan_update(r) ==
    /\ AtWrite(r, "scan")
    /\ req[r].found # <<>>
    /\ CommitUpdate(r, req[r].found[1].id,
                    new_qty(req[r].found[1].quantity, req[r].entry.quantity.value),
                    req[r].entry.quantity.value, "Added")

\* lines 141-143
scan_insert(r) ==
    /\ AtWrite(r, "scan")
    /\ req[r].found = <<>>
    /\ store' = insert_row(store, nextId, req[r].entry.item, req[r].entry.quantity.value,
                           created_unit(req[r].entry))
    /\ nextId' = nextId + 1
    /\ ledger' = Append(ledger, req[r].entry.quantity.value)
    /\ req' = Logged([req EXCEPT ![r].writes = @ + 1], r, "Created")
    /\ UNCHANGED <<claimed, raced, shopVars>>

\* line 139 or 142: the store rejects the write
scan_write_rejected(r) ==
    /\ AtWrite(r, "scan")
    /\ Raise(r, req[r].i)
    /\ UNCHANGED <<store, nextId, claimed, ledger, raced, shopVars>>

\* line 145
scan_return(r) ==
    /\ req[r].endpoint = "scan"
    /\ req[r].pc = "loop"
    /\ req[r].i = req[r].n
    /\ req' = [req EXCEPT ![r] = [@ EXCEPT !.pc = "done", !.resp = "ok"]]
    /\ UNCHANGED <<store, nextId, claimed, ledger, raced, shopVars>>

\* the response has been sent; the slot serves the next request
Reply(r) ==
    /\ req[r].pc = "done"
    /\ req' = [req EXCEPT ![r] = IdleReq]
    /\ UNCHANGED <<store, nextId, claimed, ledger, raced, shopVars>>

Next ==
    \E r \in Slots :
        \/ process_voice(r)
        \/ scan_bill(r)
        \/ generate_content_fails(r)
        \/ voice_skip(r)
        \/ voice_key_error(r)
        \/ voice_select(r)
        \/ voice_select_rejected(r)
        \/ voice_value_error(r)
        \/ voice_update(r)
        \/ voice_update_rejected(r)
        \/ voice_not_found(r)
        \/ voice_return(r)
        \/ scan_bad_entry(r)
        \/ scan_select(r)
        \/ scan_select_rejected(r)
        \/ scan_insert(r)
        \/ scan_update(r)
        \/ scan_write_rejected(r)
        \/ scan_return(r)
        \/ Reply(r)

Spec == Init /\ [][Next]_vars

----------------------------------------------------------------------------
\* GET /shopping-list, lines 151-174

\* the default on line 162: 2.0, in eighths
DefaultLimit == 16

\* the default only for a threshold that is None: a threshold of 0 is kept
safe_limit_keeps_zero(item) ==
    IF item.threshold.present THEN item.threshold.value ELSE DefaultLimit

\* item.get('threshold') or 2.0 -- a threshold of None or of 0 is falsy
safe_limit(item) ==
    IF item.threshold.present /\ item.threshold.value # 0
    THEN item.threshold.value
    ELSE DefaultLimit

\* round(x, 2) of x eighths, in hundredths: x is 12.5 * x hundredths, and
\* a tie goes to the even hundredth
round2(x) ==
    IF x % 2 = 0
    THEN (25 * x) \div 2
    ELSE LET lo == (25 * x - 1) \div 2
         IN  IF lo % 2 = 0 THEN lo ELSE lo + 1

\* lines 160-172: the loop over the snapshot
RECURSIVE shopping_list(_)
shopping_list(rows) ==
    IF rows = <<>> THEN <<>>
    ELSE LET item == Head(rows)
             limit == safe_limit(item)
             current_qty == item.quantity
             needed == limit - current_qty
         IN  (IF current_qty < limit
              THEN << [item_name |-> item.item_name,
                       quantity |-> round2(current_qty),
                       needed |-> round2(needed),
                       unit |-> item.unit] >>
              ELSE <<>>)
             \o shopping_list(Tail(rows))

get_shopping_list ==
    /\ shopPc = "idle"
    /\ data' = store
    /\ shopping' = shopping_list(store)
    /\ shopPc' = "done"
    /\ UNCHANGED <<store, nextId, req, claimed, ledger, raced>>

\* the inventory snapshots the derivation is checked on
ShopNames == { <<"a">>, <<"b">> }
ShopQuantities == {0, 1, 7, 8, 15, 16, 24}
ShopThresholds == {NoThreshold, Threshold(0), Threshold(9), Threshold(24)}

Snapshots ==
    UNION { [1..m -> [item_name : ShopNames, quantity : ShopQuantities,
                      unit : Units, threshold : ShopThresholds]]
            : m \in 0..MaxSnapshot }

InitShop ==
    /\ \E rows \in Snapshots :
          store = [k \in 1..Len(rows) |->
                      [id |-> k, item_name |-> rows[k].item_name,
                       quantity |-> rows[k].quantity, unit |-> rows[k].unit,
                       threshold |-> rows[k].threshold]]
    /\ nextId = Len(store) + 1
    /\ req = [r \in Slots |-> IdleReq]
    /\ claimed = 0
    /\ ledger = [k \in 1..Len(store) |-> store[k].quantity]
    /\ raced = FALSE
    /\ data = <<>>
    /\ shopping = <<>>
    /\ shopPc = "idle"

NextShop == get_shopping_list

SpecShop == InitShop /\ [][NextShop]_vars

----------------------------------------------------------------------------
\* Claims

Done(r) == req[r].pc = "done"

\* C1: the persisted quantity of every inventory row is never negative; a
\* USE of more than the stock persists 0.
C1_NonNegativeStock ==
    \A k \in 1..Len(store) : store[k].quantity >= 0

\* C2: when handling entry k of a batch fails, the failure is an error log
\* line for entry k only: every entry after k is still processed and the
\* response holds the log lines of the entries before k.
C2_FailureIsolated ==
    \A r \in Slots :
        (Done(r) /\ req[r].errAt >= 1) =>
            /\ req[r].i = req[r].n
            /\ req[r].resp = "ok"
            /\ \E k \in 1..Len(req[r].logs) :
                  req[r].logs[k].idx = req[r].errAt /\ req[r].logs[k].tag = "Error"

\* C3: the report of every batch handed to the reconciler holds exactly one
\* log line per entry, in input order: log line k describes entry k.
C3_OneLogPerEntry ==
    \A r \in Slots :
        (Done(r) /\ req[r].errAt # 0) =>
            /\ Len(req[r].logs) = req[r].n
            /\ \A k \in 1..Len(req[r].logs) : req[r].logs[k].idx = k

\* C4: in every reachable state of the store at most one row matches any
\* given item name ignoring case.
C4_NameUnique ==
    \A j, k \in 1..Len(store) :
        j # k => ~SameName(store[j].item_name, store[k].item_name)

\* the handler in slot r completes the write step of its current entry
Writes(r, endpoint) ==
    /\ AtWrite(r, endpoint)
    /\ req'[r].pc = "loop"

\* no row had the name of the current entry of slot r, ignoring case, when
\* the handler looked it up, and none has it now
Absent(r) ==
    /\ req[r].same = {}
    /\ SameNameIds(store, req[r].entry.item) = {}

\* C5: adding an item whose name has no case-insensitive match creates
\* exactly one new row, with the quantity and the unit of the entry, and
\* changes no existing row.
C5_AddCreatesRow ==
    [][\A r \in Slots :
          (Writes(r, "scan") /\ Absent(r)) =>
              /\ Len(store') = Len(store) + 1
              /\ SubSeq(store', 1, Len(store)) = store
              /\ store'[Len(store')].item_name = req[r].entry.item
              /\ store'[Len(store')].quantity = req[r].entry.quantity.value
              /\ store'[Len(store')].unit = req[r].entry.unit]_vars

\* C6: the lookup returns a row if and only if the requested name equals the
\* name of the row ignoring letter case.
C6_LookupExact ==
    \A r \in Slots :
        req[r].pc = "selected" => Ids(req[r].found) = req[r].same

\* C9: a USE entry whose item name has no case-insensitive match changes no
\* row and creates none, is logged as not found, and raises nothing: the
\* batch continues.
C9_UseAbsentNoChange ==
    [][\A r \in Slots :
          (AtWrite(r, "voice") /\ Absent(r) /\ Numeric(req[r].entry.quantity)
              /\ req'[r] # req[r]) =>
              /\ store' = store
              /\ req'[r].pc = "loop"
              /\ req'[r].logs = Append(req[r].logs, [idx |-> req[r].i, tag |-> "NotFound"])]_vars

\* C8: when the AI call fails or its output, fence markers stripped, is no
\* JSON, the request returns a single top-level error and writes nothing
\* to the store.
C8_GatewayErrorWritesNothing ==
    \A r \in Slots :
        req[r].garbled =>
            /\ Done(r)
            /\ req[r].resp = "error"
            /\ req[r].errAt = 0
            /\ req[r].logs = <<>>
            /\ req[r].writes = 0

\* a request whose AI output was prose inside fence markers has returned its
\* error, next to a store that holds a row
C8_Witness ==
    \E r \in Slots :
        /\ Done(r)
        /\ req[r].resp = "error"
        /\ req[r].text = <<Token(FenceJson, 0), Token("prose", 0), Token(Fence, 0)>>
        /\ store # <<>>

\* C10 as stated: whatever the interleaving of the reads and writes of two
\* requests on one row, the row holds its initial quantity plus the sum of
\* the signed deltas committed to it.
C10_NoLostUpdate ==
    \A k \in 1..Len(store) : store[k].quantity = ledger[k]

\* C10 amended: as long as no update was computed from a quantity that
\* another write to the row had replaced since it was read, every row holds
\* its initial quantity plus the sum of the signed deltas committed to it.
C10_SerialUpdatesSum ==
    ~raced => \A k \in 1..Len(store) : store[k].quantity = ledger[k]

\* both handlers have updated the one initial row, one after the other, and
\* it holds 1.0 - 1.5 - 1.5
C10_Witness ==
    /\ ~raced
    /\ Len(store) = 1
    /\ \A r \in Slots : req[r].writes >= 1
    /\ store[1].quantity = 8 - 12 - 12

----------------------------------------------------------------------------
\* Claims on the shopping list (checked under SpecShop)

\* the limit of C7: the threshold when present and not 0, otherwise 2.0
C7_Limit(row) ==
    IF row.threshold.present /\ ~(row.threshold.value = 0)
    THEN row.threshold.value
    ELSE 16

\* h hundredths is x eighths rounded to two decimals: the nearest hundredth,
\* the even one of two equally near
C7_Rounded(h, x) ==
    LET d == 8 * h - 100 * x
    IN  /\ -4 <= d /\ d <= 4
        /\ (d = 4 \/ d = -4) => h % 2 = 0

\* h hundredths is exactly x eighths
C7_Exact(h, x) == 8 * h = 100 * x

\* the response lists, in the order of the snapshot, exactly the rows below
\* their limit, each with the needed amount Needed(h, x) relates to limit - quantity
C7_Derived(Needed(_, _)) ==
    \E f \in [1..Len(shopping) -> 1..Len(data)] :
        /\ \A j, k \in 1..Len(shopping) : j < k => f[j] < f[k]
        /\ \A k \in 1..Len(shopping) :
              /\ shopping[k].item_name = data[f[k]].item_name
              /\ shopping[k].unit = data[f[k]].unit
              /\ data[f[k]].quantity < C7_Limit(data[f[k]])
              /\ Needed(shopping[k].needed, C7_Limit(data[f[k]]) - data[f[k]].quantity)
        /\ \A m \in 1..Len(data) :
              (\A k \in 1..Len(shopping) : f[k] # m) =>
                  data[m].quantity >= C7_Limit(data[m])

\* C7 as stated: an item is listed iff quantity < safe_limit, with
\* needed = safe_limit - quantity, in snapshot order, the store unchanged.
C7_NeededExact ==
    shopPc = "done" => (C7_Derived(C7_Exact) /\ store = data)

\* C7 amended: needed = round(safe_limit - quantity, 2)
C7_NeededRounded ==
    shopPc = "done" => (C7_Derived(C7_Rounded) /\ store = data)

\* a snapshot with a row of threshold 0 and quantity 0.875 has been derived:
\* the row is listed, needing 1.12
C7_Witness ==
    /\ shopPc = "done"
    /\ Len(data) = 2
    /\ data[1].threshold = Threshold(0)
    /\ data[1].quantity = 7
    /\ data[2].quantity = 24
    /\ Len(shopping) = 1
    /\ shopping[1].needed = 112

====
